---- MODULE Spec2Model ----
(***************************************************************************)
(* Model of cmd/kes/log.go: the `kes log trace` command.                   *)
(*                                                                         *)
(* Three activities are modelled with one program counter each:            *)
(*   pc   the main goroutine (logTrace, then trace{Audit,Error}LogWithUI   *)
(*        or the plain Println loop),                                      *)
(*   lpc  the goroutine started at log.go:159 / log.go:236 that reads      *)
(*        ui.PollEvents(),                                                 *)
(*   spc  the goroutine started by closeOn (log.go:289).                   *)
(* Table.Draw and Table.AddRow are split into a begin and an end step so   *)
(* that two goroutines can be observed inside them at the same time.       *)
(* stdlog.Fatalf is os.Exit(1): no deferred call runs after it.            *)
(***************************************************************************)
EXTENDS Naturals, Integers, Sequences, FiniteSets, TLC

\* ---- bounds of the model ----
MaxData == 2        \* events the server sends in one session
MaxEvents == 2      \* terminal events (resize, keys) in one session
MaxSignals == 2     \* OS signals sent to the process in one session
MaxMsgLen == 4      \* characters of an error message given to the formatter
MaxMul == 2         \* multiples of each truncation unit given to the formatter
MaxOff == 2         \* nanoseconds around each multiple given to the formatter

\* ---- program constants ----
Second == 1000000000
Millisecond == 1000000
Microsecond == 1000
StatusOK == 200

NoErr == "nil"
SomeErr == "err"
Running == 0 - 1    \* exitCode while the process is alive

VARIABLES
    kind,         \* typeFlag: "audit" or "error"
    interactive,  \* isTerm(os.Stdout) && !jsonOutput
    pc, lpc, spc,
    uiActive,     \* between ui.Init() and ui.Close()
    uiInits, uiCloses,
    termLog,      \* terminal operations of the main goroutine after the loop
    rows,         \* Table.rows
    painted,      \* number of rows shown by the last completed Table.Draw
    lsnap,        \* number of rows when the listener entered Table.Draw
    cur,          \* stream.Event() / stream.Bytes(): <<>> or <<event>>
    wire,         \* what the server has sent and Next has not yet consumed
    sent, serverDone,
    streamClosed, \* Stream: close() has taken effect
    closeCalls,   \* Stream.Close() calls, per caller
    streamErr,    \* stream.Err()
    events,       \* terminal events not yet received from ui.PollEvents()
    nEvents, nSignals,
    notify,       \* signal.Notify(sigCh, ...) is in force
    stdout,       \* lines written by fmt.Println
    fatal,        \* stdlog.Fatalf has written its report
    exitCode,
    \* history variables (not read by the program)
    received,     \* events for which Next() returned true
    cancelSeen,   \* a Cancel key was put in the event queue while Running
    cancelMid,    \* the first such key came while a data event was being handled
    solicited,    \* the listener had called Close() when Next() returned false
    endSeen,      \* Next() has returned false
    sigSeen,      \* an interrupt/termination signal reached the process
    connFailed    \* client.AuditLog() / client.ErrorLog() returned an error

vars == <<kind, interactive, pc, lpc, spc, uiActive, uiInits, uiCloses, termLog,
          rows, painted, lsnap, cur, wire, sent, serverDone, streamClosed,
          closeCalls, streamErr, events, nEvents, nSignals, notify, stdout,
          fatal, exitCode, received, cancelSeen, cancelMid, solicited, endSeen,
          sigSeen, connFailed>>

termVars == <<uiActive, uiInits, uiCloses, termLog>>
tableVars == <<rows, painted, lsnap>>
serverVars == <<wire, sent, serverDone>>
streamVars == <<streamClosed, closeCalls, streamErr>>
envVars == <<events, nEvents, nSignals, sigSeen>>
histVars == <<received, cancelSeen, cancelMid, solicited, endSeen, connFailed>>
cfgVars == <<kind, interactive>>

\* ---- the formatters (pure) ----

\* time.Duration.Truncate(m): round d toward zero to a multiple of m
Truncate(d, m) == d - (d % m)

\* time.Duration.String(): value, fraction and unit of the printed text
DurationString(d) ==
    IF d = 0 THEN <<0, 0, "s">>
    ELSE IF d < Microsecond THEN <<d, 0, "ns">>
    ELSE IF d < Millisecond THEN <<d \div Microsecond, d % Microsecond, "us">>
    ELSE IF d < Second THEN <<d \div Millisecond, d % Millisecond, "ms">>
    ELSE <<d \div Second, d % Second, "s">>

\* respTimeOf written with Duration.Round: to the nearest multiple
respTimeOf_Round(d) ==
    LET u == IF d >= Second THEN 10 * Millisecond
             ELSE IF d >= Millisecond THEN 10 * Microsecond
             ELSE Microsecond
        r == d % u
    IN DurationString(IF r + r < u THEN d - r ELSE d + u - r)

\* the switch at log.go:198
respTimeOf(d) ==
    IF d >= Second THEN DurationString(Truncate(d, 10 * Millisecond))
    ELSE IF d >= Millisecond THEN DurationString(Truncate(d, 10 * Microsecond))
    ELSE DurationString(Truncate(d, Microsecond))

\* fmt.Sprintf("%02d:%02d:%02d", hh, mm, ss)
ClockString(c) ==
    <<c[1] \div 10, c[1] % 10, ":", c[2] \div 10, c[2] % 10, ":", c[3] \div 10, c[3] % 10>>

\* http.StatusText
StatusText(code) ==
    IF code = 200 THEN "OK" ELSE IF code = 404 THEN "Not Found" ELSE ""

NewCell(text) == [text |-> text, color |-> "default"]

\* the body of the loop at log.go:180-205
AuditRow(e) ==
    <<NewCell(ClockString(e.clock)),
      NewCell(e.identity),
      [text |-> <<e.status, " ", StatusText(e.status)>>,
       color |-> IF e.status = StatusOK THEN "green" ELSE "red"],
      NewCell(e.path),
      NewCell(respTimeOf(e.time))>>

\* strings.Index(s, " ") on a sequence of characters; 0 when absent
RECURSIVE IndexFrom(_, _)
IndexFrom(s, i) ==
    IF i > Len(s) THEN 0
    ELSE IF s[i] = " " THEN i
    ELSE IndexFrom(s, i + 1)

\* strings.SplitN(s, " ", n) for n >= 1
RECURSIVE SplitN(_, _)
SplitN(s, n) ==
    IF n <= 1 THEN <<s>>
    ELSE LET i == IndexFrom(s, 1) IN
         IF i = 0 THEN <<s>>
         ELSE <<SubSeq(s, 1, i - 1)>> \o SplitN(SubSeq(s, i + 1, Len(s)), n - 1)

\* strings.ReplaceAll(s, "\n", " ")
ReplaceAll(s) == [i \in 1..Len(s) |-> IF s[i] = "\n" THEN " " ELSE s[i]]

\* ErrorRow whose fallback builds the message cell only
ErrorRow_FallbackOneCell(e, now) ==
    LET segments == SplitN(e.message, 3) IN
    IF Len(segments) = 3
    THEN <<NewCell(segments[2]), NewCell(ReplaceAll(segments[3]))>>
    ELSE <<NewCell(ReplaceAll(e.message))>>

\* ErrorRow whose fallback keeps the newlines of the message
ErrorRow_RawFallback(e, now) ==
    LET segments == SplitN(e.message, 3) IN
    IF Len(segments) = 3
    THEN <<NewCell(segments[2]), NewCell(ReplaceAll(segments[3]))>>
    ELSE <<NewCell(ClockString(now)), NewCell(e.message)>>

\* the body of the loop at log.go:260-273; now is time.Now().Clock()
ErrorRow(e, now) ==
    LET segments == SplitN(e.message, 3) IN
    IF Len(segments) = 3
    THEN <<NewCell(segments[2]), NewCell(ReplaceAll(segments[3]))>>
    ELSE <<NewCell(ClockString(now)), NewCell(ReplaceAll(e.message))>>

\* ---- inputs ----
AuditEvents ==
    { [identity |-> "alice", status |-> 200, path |-> "/v1/key/create",
       clock |-> <<10, 2, 3>>, time |-> 1234567890],
      [identity |-> "bob", status |-> 404, path |-> "/v1/key/delete",
       clock |-> <<9, 59, 0>>, time |-> 345678] }

ErrorEvents ==
    { [message |-> <<"D", " ", "T", " ", "m", "\n", "x", " ", "y">>],
      [message |-> <<"d", "i", "s", "k", " ", "f", "u", "l", "l">>] }

Clocks == { <<23, 59, 58>>, <<0, 0, 1>> }

EventsOf(k) == IF k = "audit" THEN AuditEvents ELSE ErrorEvents
HeadersOf(k) == IF k = "audit" THEN 5 ELSE 2

Alive == exitCode = Running
Callers == {"listener", "signal", "defer"}

Init ==
    /\ kind \in {"audit", "error"}
    /\ interactive \in BOOLEAN
    /\ pc = "connect" /\ lpc = "none" /\ spc = "none"
    /\ uiActive = FALSE /\ uiInits = 0 /\ uiCloses = 0 /\ termLog = <<>>
    /\ rows = <<>> /\ painted = 0 /\ lsnap = 0
    /\ cur = <<>>
    /\ wire = <<>> /\ sent = 0 /\ serverDone = FALSE
    /\ streamClosed = FALSE
    /\ closeCalls = [c \in Callers |-> 0]
    /\ streamErr = NoErr
    /\ events = <<>> /\ nEvents = 0 /\ nSignals = 0
    /\ notify = FALSE
    /\ stdout = <<>>
    /\ fatal = FALSE
    /\ exitCode = Running
    /\ received = <<>>
    /\ cancelSeen = FALSE /\ cancelMid = FALSE
    /\ solicited = FALSE /\ endSeen = FALSE /\ sigSeen = FALSE
    /\ connFailed = FALSE

\* ---- the Stream (spec.md 4.1) ----

\* close(): idempotent; the first call takes effect
StreamClose(caller) ==
    /\ closeCalls' = [closeCalls EXCEPT ![caller] = @ + 1]
    /\ streamClosed' = TRUE
    /\ UNCHANGED streamErr

\* next() returns true: an event is available on an open stream
NextTrue ==
    /\ ~streamClosed
    /\ wire # <<>>
    /\ Head(wire).tag = "event"
    /\ cur' = Head(wire).ev
    /\ wire' = Tail(wire)
    /\ received' = received \o Head(wire).ev
    /\ UNCHANGED <<sent, serverDone, streamVars, cancelSeen, cancelMid, solicited,
                   endSeen, connFailed>>

\* next() returns false: closed by close(), ended by the server, or failed.
\* What err() reports after a close() is not fixed by the contract.
NextFalse ==
    /\ \/ /\ streamClosed
          /\ streamErr' \in {NoErr, SomeErr}
          /\ UNCHANGED wire
       \/ /\ ~streamClosed
          /\ wire # <<>>
          /\ Head(wire).tag \in {"eof", "fail"}
          /\ streamErr' = IF Head(wire).tag = "fail" THEN SomeErr ELSE NoErr
          /\ wire' = Tail(wire)
    /\ solicited' = (closeCalls["listener"] > 0)
    /\ endSeen' = TRUE
    /\ UNCHANGED <<cur, sent, serverDone, streamClosed, closeCalls, received,
                   cancelSeen, cancelMid, connFailed>>

\* the server emits one more event
ServerSend ==
    /\ Alive /\ pc # "connect"
    /\ ~serverDone /\ ~streamClosed /\ sent < MaxData
    /\ \E e \in EventsOf(kind) : wire' = Append(wire, [tag |-> "event", ev |-> <<e>>])
    /\ sent' = sent + 1
    /\ UNCHANGED <<cfgVars, pc, lpc, spc, termVars, tableVars, cur, serverDone,
                   streamVars, envVars, notify, stdout, fatal, exitCode, histVars>>

\* the server ends the stream, cleanly or not
ServerEnd ==
    /\ Alive /\ pc # "connect"
    /\ ~serverDone /\ ~streamClosed
    /\ \E how \in {"eof", "fail"} : wire' = Append(wire, [tag |-> how, ev |-> <<>>])
    /\ serverDone' = TRUE
    /\ UNCHANGED <<cfgVars, pc, lpc, spc, termVars, tableVars, cur, sent,
                   streamVars, envVars, notify, stdout, fatal, exitCode, histVars>>

\* ---- the Table (spec.md 4.3) ----

\* add_row(Row): appends to the buffered rows, does not paint
TableAddRow(row) == rows' = Append(rows, row)

\* draw(): repaint from the buffered rows, which it leaves unchanged. A draw
\* that ran while another goroutine was in add_row shows the rows it found
\* on entry (snap) or those present on return.
TableDraw(snap) == painted' \in {snap, Len(rows)}

\* ---- logTrace ----

\* stdlog.Fatalf: one report, then os.Exit(1); deferred calls do not run
Fatalf == fatal' = TRUE /\ exitCode' = 1

\* client.AuditLog() / client.ErrorLog() succeeds
Connect ==
    /\ Alive /\ pc = "connect"
    /\ pc' = IF interactive THEN "uiinit" ELSE "closeOn"
    /\ UNCHANGED <<cfgVars, lpc, spc, termVars, tableVars, cur, serverVars,
                   streamVars, envVars, notify, stdout, fatal, exitCode, histVars>>

\* ConnectFail that reports the error with a call that returns, and goes on
ConnectFail_GoesOn ==
    /\ Alive /\ pc = "connect"
    /\ connFailed' = TRUE
    /\ fatal' = TRUE
    /\ pc' = IF interactive THEN "uiinit" ELSE "closeOn"
    /\ UNCHANGED <<cfgVars, lpc, spc, termVars, tableVars, cur, serverVars,
                   streamVars, envVars, notify, stdout, exitCode, received,
                   cancelSeen, cancelMid, solicited, endSeen>>

\* client.AuditLog() / client.ErrorLog() fails
ConnectFail ==
    /\ Alive /\ pc = "connect"
    /\ connFailed' = TRUE
    /\ Fatalf
    /\ UNCHANGED <<cfgVars, pc, lpc, spc, termVars, tableVars, cur, serverVars,
                   streamVars, envVars, notify, stdout, received, cancelSeen,
                   cancelMid, solicited, endSeen>>
\* ---- closeOn and the plain output loop (log.go:103-110, 119-125) ----

\* closeOn(stream, os.Interrupt, os.Kill): register and start the goroutine
CloseOn ==
    /\ Alive /\ pc = "closeOn"
    /\ notify' = TRUE
    /\ spc' = "wait"
    /\ pc' = "pnext"
    /\ UNCHANGED <<cfgVars, lpc, termVars, tableVars, cur, serverVars, streamVars,
                   envVars, stdout, fatal, exitCode, histVars>>

\* the closeOn goroutine after <-sigCh: c.Close(), then it ends
SigClose ==
    /\ Alive /\ spc = "signalled"
    /\ StreamClose("signal")
    /\ spc' = "done"
    /\ UNCHANGED <<cfgVars, pc, lpc, termVars, tableVars, cur, serverVars,
                   envVars, notify, stdout, fatal, exitCode, histVars>>

\* for stream.Next() { ... } in the plain loop
PlainNext ==
    /\ Alive /\ pc = "pnext"
    /\ \/ NextTrue /\ pc' = "println"
       \/ NextFalse /\ pc' = "pfatal"
    /\ UNCHANGED <<cfgVars, lpc, spc, termVars, tableVars, sent, serverDone,
                   envVars, notify, stdout, fatal, exitCode>>

\* the text fmt.Println writes for one operand: the operand, then a newline
Line(b) == <<b, "\n">>

\* Println written with fmt.Print: the line is not terminated
Println_NoNewline ==
    /\ Alive /\ pc = "println"
    /\ stdout' = Append(stdout, <<cur[1]>>)
    /\ pc' = "pnext"
    /\ UNCHANGED <<cfgVars, lpc, spc, termVars, tableVars, cur, serverVars,
                   streamVars, envVars, notify, fatal, exitCode, histVars>>

\* fmt.Println(string(stream.Bytes()))
Println ==
    /\ Alive /\ pc = "println"
    /\ stdout' = Append(stdout, Line(cur[1]))
    /\ pc' = "pnext"
    /\ UNCHANGED <<cfgVars, lpc, spc, termVars, tableVars, cur, serverVars,
                   streamVars, envVars, notify, fatal, exitCode, histVars>>

\* PlainFatal that tests stream.Err() as the UI loop does: nil is a clean end
PlainFatal_NilIsClean ==
    /\ Alive /\ pc = "pfatal"
    /\ IF streamErr # NoErr THEN Fatalf ELSE exitCode' = 0 /\ UNCHANGED fatal
    /\ UNCHANGED <<cfgVars, pc, lpc, spc, termVars, tableVars, cur, serverVars,
                   streamVars, envVars, notify, stdout, histVars>>

\* stdlog.Fatalf("... log closed with: %v", stream.Err())
PlainFatal ==
    /\ Alive /\ pc = "pfatal"
    /\ Fatalf
    /\ UNCHANGED <<cfgVars, pc, lpc, spc, termVars, tableVars, cur, serverVars,
                   streamVars, envVars, notify, stdout, histVars>>

\* ---- trace{Audit,Error}LogWithUI: the main goroutine ----

\* ui.Init() succeeds; the defers are registered and the listener is started
UiInit ==
    /\ Alive /\ pc = "uiinit"
    /\ uiActive' = TRUE
    /\ uiInits' = uiInits + 1
    /\ lpc' = "poll"
    /\ pc' = "draw"
    /\ UNCHANGED <<cfgVars, spc, uiCloses, termLog, tableVars, cur, serverVars,
                   streamVars, envVars, notify, stdout, fatal, exitCode, histVars>>

\* ui.Init() fails
UiInitFail ==
    /\ Alive /\ pc = "uiinit"
    /\ Fatalf
    /\ UNCHANGED <<cfgVars, pc, lpc, spc, termVars, tableVars, cur, serverVars,
                   streamVars, envVars, notify, stdout, histVars>>

\* table.Draw() is entered (log.go:178, 208)
DrawBegin ==
    /\ Alive /\ pc = "draw"
    /\ pc' = "indraw"
    /\ UNCHANGED <<cfgVars, lpc, spc, termVars, tableVars, cur, serverVars,
                   streamVars, envVars, notify, stdout, fatal, exitCode, histVars>>

\* table.Draw() returns
DrawEnd ==
    /\ Alive /\ pc = "indraw"
    /\ TableDraw(Len(rows))
    /\ pc' = "next"
    /\ UNCHANGED <<cfgVars, lpc, spc, termVars, rows, lsnap, cur, serverVars,
                   streamVars, envVars, notify, stdout, fatal, exitCode, histVars>>

\* for stream.Next() { ... }
ConsumerNext ==
    /\ Alive /\ pc = "next"
    /\ \/ NextTrue /\ pc' = "addrow"
       \/ NextFalse /\ pc' = "err"
    /\ UNCHANGED <<cfgVars, lpc, spc, termVars, tableVars, sent, serverDone,
                   envVars, notify, stdout, fatal, exitCode>>

\* the row is built and table.AddRow(...) is entered
AddRowBegin ==
    /\ Alive /\ pc = "addrow"
    /\ pc' = "inaddrow"
    /\ UNCHANGED <<cfgVars, lpc, spc, termVars, tableVars, cur, serverVars,
                   streamVars, envVars, notify, stdout, fatal, exitCode, histVars>>

\* AddRowEnd in a loop that does not call table.Draw() after table.AddRow
AddRowEnd_NoDraw ==
    /\ Alive /\ pc = "inaddrow"
    /\ \E now \in Clocks :
          TableAddRow(IF kind = "audit" THEN AuditRow(cur[1])
                      ELSE ErrorRow(cur[1], now))
    /\ pc' = "next"
    /\ UNCHANGED <<cfgVars, lpc, spc, termVars, painted, lsnap, cur, serverVars,
                   streamVars, envVars, notify, stdout, fatal, exitCode, histVars>>

\* table.AddRow(...) returns: one row appended
AddRowEnd ==
    /\ Alive /\ pc = "inaddrow"
    /\ \E now \in Clocks :
          TableAddRow(IF kind = "audit" THEN AuditRow(cur[1])
                      ELSE ErrorRow(cur[1], now))
    /\ pc' = "draw"
    /\ UNCHANGED <<cfgVars, lpc, spc, termVars, painted, lsnap, cur, serverVars,
                   streamVars, envVars, notify, stdout, fatal, exitCode, histVars>>

\* if err := stream.Err(); err != nil { stdlog.Fatalf(...) }
ErrCheck ==
    /\ Alive /\ pc = "err"
    /\ IF streamErr # NoErr
       THEN Fatalf /\ pc' = pc
       ELSE pc' = "uiclose" /\ UNCHANGED <<fatal, exitCode>>
    /\ UNCHANGED <<cfgVars, lpc, spc, termVars, tableVars, cur, serverVars,
                   streamVars, envVars, notify, stdout, histVars>>

\* DeferUiClose with the two defer statements in the opposite order:
\* the deferred table.Draw() has already run when ui.Close() runs
DeferUiClose_DrawFirst ==
    /\ Alive /\ pc = "uiclose"
    /\ uiActive' = FALSE
    /\ uiCloses' = uiCloses + 1
    /\ termLog' = <<"draw", "close">>
    /\ pc' = "sclose"
    /\ UNCHANGED <<cfgVars, lpc, spc, uiInits, tableVars, cur, serverVars,
                   streamVars, envVars, notify, stdout, fatal, exitCode, histVars>>

\* first deferred call to run: ui.Close()
DeferUiClose ==
    /\ Alive /\ pc = "uiclose"
    /\ uiActive' = FALSE
    /\ uiCloses' = uiCloses + 1
    /\ termLog' = Append(termLog, "close")
    /\ pc' = "fdraw"
    /\ UNCHANGED <<cfgVars, lpc, spc, uiInits, tableVars, cur, serverVars,
                   streamVars, envVars, notify, stdout, fatal, exitCode, histVars>>

\* second deferred call to run: table.Draw() is entered
DeferDrawBegin ==
    /\ Alive /\ pc = "fdraw"
    /\ pc' = "infdraw"
    /\ UNCHANGED <<cfgVars, lpc, spc, termVars, tableVars, cur, serverVars,
                   streamVars, envVars, notify, stdout, fatal, exitCode, histVars>>

\* the deferred table.Draw() returns
DeferDrawEnd ==
    /\ Alive /\ pc = "infdraw"
    /\ TableDraw(Len(rows))
    /\ termLog' = Append(termLog, "draw")
    /\ pc' = "sclose"
    /\ UNCHANGED <<cfgVars, lpc, spc, uiActive, uiInits, uiCloses, rows, lsnap,
                   cur, serverVars, streamVars, envVars, notify, stdout, fatal,
                   exitCode, histVars>>

\* logTrace's deferred stream.Close()
DeferStreamClose ==
    /\ Alive /\ pc = "sclose"
    /\ StreamClose("defer")
    /\ pc' = "return"
    /\ UNCHANGED <<cfgVars, lpc, spc, termVars, tableVars, cur, serverVars,
                   envVars, notify, stdout, fatal, exitCode, histVars>>

\* logTrace returns and the process ends
Return ==
    /\ Alive /\ pc = "return"
    /\ exitCode' = 0
    /\ UNCHANGED <<cfgVars, pc, lpc, spc, termVars, tableVars, cur, serverVars,
                   streamVars, envVars, notify, stdout, fatal, histVars>>
\* ---- the goroutine reading ui.PollEvents() (log.go:159-172, 236-249) ----

CancelKeys == {"<C-c>", "<Escape>"}
TermEvents == {"<Resize>", "<Enter>"} \cup CancelKeys

\* ListenerResize that also adds the newest row once more before drawing
ListenerResize_AddsRow ==
    /\ Alive /\ lpc = "poll"
    /\ events # <<>> /\ Head(events) = "<Resize>"
    /\ events' = Tail(events)
    /\ rows' = IF rows = <<>> THEN rows ELSE Append(rows, rows[Len(rows)])
    /\ lsnap' = Len(rows)
    /\ lpc' = "indraw"
    /\ UNCHANGED <<cfgVars, pc, spc, termVars, painted, cur, serverVars,
                   streamVars, nEvents, nSignals, sigSeen, notify, stdout, fatal,
                   exitCode, histVars>>

\* case event.Type == ui.ResizeEvent: table.Draw() is entered
ListenerResize ==
    /\ Alive /\ lpc = "poll"
    /\ events # <<>> /\ Head(events) = "<Resize>"
    /\ events' = Tail(events)
    /\ lsnap' = Len(rows)
    /\ lpc' = "indraw"
    /\ UNCHANGED <<cfgVars, pc, spc, termVars, rows, painted, cur, serverVars,
                   streamVars, nEvents, nSignals, sigSeen, notify, stdout, fatal,
                   exitCode, histVars>>

\* the listener's table.Draw() returns. It ran unsynchronised with the main
\* goroutine: it showed the rows it found on entry or those present now.
ListenerDrawEnd ==
    /\ Alive /\ lpc = "indraw"
    /\ TableDraw(lsnap)
    /\ lpc' = "poll"
    /\ UNCHANGED <<cfgVars, pc, spc, termVars, rows, lsnap, cur, serverVars,
                   streamVars, envVars, notify, stdout, fatal, exitCode, histVars>>

\* ListenerCancel without the return: the goroutine goes on reading events
ListenerCancel_NoReturn ==
    /\ Alive /\ lpc = "poll"
    /\ events # <<>> /\ Head(events) \in CancelKeys
    /\ events' = Tail(events)
    /\ StreamClose("listener")
    /\ lpc' = "poll"
    /\ UNCHANGED <<cfgVars, pc, spc, termVars, tableVars, cur, serverVars,
                   nEvents, nSignals, sigSeen, notify, stdout, fatal, exitCode,
                   histVars>>

\* case event.ID == "<C-c>" || event.ID == "<Escape>": stream.Close(); return
ListenerCancel ==
    /\ Alive /\ lpc = "poll"
    /\ events # <<>> /\ Head(events) \in CancelKeys
    /\ events' = Tail(events)
    /\ StreamClose("listener")
    /\ lpc' = "done"
    /\ UNCHANGED <<cfgVars, pc, spc, termVars, tableVars, cur, serverVars,
                   nEvents, nSignals, sigSeen, notify, stdout, fatal, exitCode,
                   histVars>>

\* no case matches: the event is dropped and the loop continues
ListenerOther ==
    /\ Alive /\ lpc = "poll"
    /\ events # <<>> /\ Head(events) \notin CancelKeys \cup {"<Resize>"}
    /\ events' = Tail(events)
    /\ UNCHANGED <<cfgVars, pc, lpc, spc, termVars, tableVars, cur, serverVars,
                   streamVars, nEvents, nSignals, sigSeen, notify, stdout, fatal,
                   exitCode, histVars>>

\* ---- the environment ----

\* the consumer is between Next() returning true and the end of the Draw()
MidFlight == cur # <<>> /\ pc \in {"addrow", "inaddrow", "draw", "indraw"}

\* the session is Running: terminal up, no Cancel handled, no stream end seen
SessionRunning == uiActive /\ ~endSeen /\ closeCalls["listener"] = 0

\* the terminal reports a resize or a key press
TermEvent ==
    /\ Alive /\ uiActive /\ nEvents < MaxEvents
    /\ \E ev \in TermEvents :
          /\ events' = Append(events, ev)
          /\ cancelSeen' = (cancelSeen \/ (ev \in CancelKeys /\ SessionRunning))
          /\ cancelMid' = (cancelMid \/ (/\ ev \in CancelKeys
                                         /\ \A i \in 1..Len(events) : events[i] \notin CancelKeys
                                         /\ SessionRunning /\ MidFlight))
    /\ nEvents' = nEvents + 1
    /\ UNCHANGED <<cfgVars, pc, lpc, spc, termVars, tableVars, cur, serverVars,
                   streamVars, nSignals, sigSeen, notify, stdout, fatal, exitCode,
                   received, solicited, endSeen, connFailed>>

Signals == {"interrupt", "terminated"}

\* a signal reaches the process. Only closeOn installs a handler, and only
\* for os.Interrupt (os.Kill cannot be caught); sigCh is unbuffered, so the
\* signal is dropped unless the goroutine is waiting. Without a handler the
\* runtime ends the process at once.
Signal ==
    /\ Alive /\ pc # "connect" /\ nSignals < MaxSignals
    /\ nSignals' = nSignals + 1
    /\ \E sig \in Signals :
          IF notify /\ sig = "interrupt"
          THEN /\ spc' = IF spc = "wait" THEN "signalled" ELSE spc
               /\ UNCHANGED exitCode
          ELSE /\ exitCode' = 2
               /\ UNCHANGED spc
    /\ sigSeen' = (sigSeen \/ SessionRunning)
    /\ UNCHANGED <<cfgVars, pc, lpc, termVars, tableVars, cur, serverVars,
                   streamVars, events, nEvents, notify, stdout, fatal, histVars>>

Next ==
    \/ ServerSend \/ ServerEnd
    \/ Connect \/ ConnectFail
    \/ CloseOn \/ SigClose \/ PlainNext \/ Println \/ PlainFatal
    \/ UiInit \/ UiInitFail
    \/ DrawBegin \/ DrawEnd \/ ConsumerNext \/ AddRowBegin \/ AddRowEnd
    \/ ErrCheck \/ DeferUiClose \/ DeferDrawBegin \/ DeferDrawEnd
    \/ DeferStreamClose \/ Return
    \/ ListenerResize \/ ListenerDrawEnd \/ ListenerCancel \/ ListenerOther
    \/ TermEvent \/ Signal

Spec == Init /\ [][Next]_vars

TypeOK ==
    /\ kind \in {"audit", "error"}
    /\ interactive \in BOOLEAN
    /\ pc \in {"connect", "closeOn", "pnext", "println", "pfatal", "uiinit",
               "draw", "indraw", "next", "addrow", "inaddrow", "err", "uiclose",
               "fdraw", "infdraw", "sclose", "return"}
    /\ lpc \in {"none", "poll", "indraw", "done"}
    /\ spc \in {"none", "wait", "signalled", "done"}
    /\ uiActive \in BOOLEAN
    /\ Len(rows) <= MaxData /\ painted <= MaxData
    /\ exitCode \in {Running, 0, 1, 2}
\* ---- properties ----

\* the process ended by its own code (return or Fatalf), not by a signal
Exited == exitCode \in {0, 1}

\* the session is Closed: the loop was left and the terminal released
Closed == uiInits = 1 /\ uiCloses = 1

\* C1: the listener is never inside Table.Draw while the consumer is inside
\* Table.AddRow or Table.Draw.
C1_SingleOwner ==
    ~(lpc = "indraw" /\ pc \in {"inaddrow", "indraw", "infdraw"})

\* C2: when the process ends by its own code after the terminal was
\* initialised, the terminal has been released exactly once.
C2_ReleasedOnExit ==
    (Exited /\ uiInits = 1) => uiCloses = 1

\* C3: the fatal report for an unsolicited stream end with an error is
\* written only when the terminal UI is no longer active.
C3_ReportAfterRelease ==
    (fatal /\ uiInits = 1 /\ endSeen /\ ~solicited) => ~uiActive

\* C4: a Cancel key handled by the listener leads to Stream.Close(), to the
\* loop being left and to the session being Closed; stated for the state in
\* which the process has ended.
C4_CancelLeadsToClosed ==
    (Exited /\ closeCalls["listener"] > 0) => (streamClosed /\ endSeen /\ Closed)

\* C5: a Cancel that arrived while a data event was being handled, and was
\* handled before the stream end was seen, ends the session with the terminal
\* released exactly once and exit code 0.
C5_CancelMidFlight ==
    (Exited /\ cancelMid /\ solicited) => (Closed /\ exitCode = 0)

\* C6: after a stream end, the exit is non-zero exactly when the end was not
\* preceded by a handled Cancel and Stream.Err() is not nil.
C6_FatalIffUnsolicitedErr ==
    (Exited /\ uiInits = 1 /\ endSeen) =>
        ((exitCode # 0) <=> (~solicited /\ streamErr # NoErr))

\* the events whose rows Table.AddRow has been given so far
Added ==
    IF pc \in {"addrow", "inaddrow"}
    THEN SubSeq(received, 1, Len(received) - 1)
    ELSE received

C8_DrawThenRelease ==
    (exitCode = 0 /\ uiInits = 1) => termLog = <<"draw", "close">>

\* C8 amended: on a normal end the terminal is released first and exactly one
\* final Table.Draw follows; the draw is the consumer's last terminal operation.
C8_ReleaseThenDraw ==
    /\ pc \in {"fdraw", "infdraw"} => (termLog = <<"close">> /\ ~uiActive)
    /\ pc \in {"sclose", "return"} => (termLog = <<"close", "draw">> /\ ~uiActive)
    /\ pc \notin {"fdraw", "infdraw", "sclose", "return"} => termLog = <<>>

\* C8 witness: a session that saw the stream end has ended normally
C8_Witness ==
    exitCode = 0 /\ endSeen /\ termLog = <<"close", "draw">>

\* C9: once the session is Closed the listener handles no further resize or
\* Cancel event (no Table.Draw, no Stream.Close from it).
C9_ListenerStopped ==
    [][Closed => ~(lpc = "poll" /\ lpc' \in {"indraw", "done"})]_vars

\* C10: an interrupt/termination signal during a Running interactive session
\* ends it like a Cancel key: Stream.Close() called, terminal released.
C10_SignalIsCancel ==
    (sigSeen /\ ~Alive) => (streamClosed /\ Closed)
\* C11: when the process ends by its own code after the stream end was seen
\* (cancel, clean end or stream error), Stream.Close() has taken effect
\* (exactly once: close() is idempotent).
C11_StreamReleasedOnExit ==
    (Exited /\ endSeen) => streamClosed
\* the events the plain loop has printed so far
Printed ==
    IF pc = "println" THEN SubSeq(received, 1, Len(received) - 1) ELSE received

\* C12: in non-interactive mode standard output holds exactly one terminated
\* line per received event, in arrival order, and the terminal surface is
\* never initialised.
C12_OneLinePerEvent ==
    ~interactive =>
        /\ uiInits = 0 /\ ~uiActive /\ lpc = "none"
        /\ Len(stdout) = Len(Printed)
        /\ \A i \in 1..Len(stdout) :
              /\ Len(stdout[i]) = 2
              /\ stdout[i][1] = Printed[i]
              /\ stdout[i][2] = "\n"

\* C12 witness: two different events have been printed
C12_Witness ==
    ~interactive /\ Len(stdout) = 2 /\ stdout[1] # stdout[2]
\* ---- the formatters on their own ----

Chars == {"a", "b", " ", "\n"}

\* every message of at most MaxMsgLen characters
Messages == UNION { [1..n -> Chars] : n \in 0..MaxMsgLen }

\* response times around the multiples of every truncation unit, below and
\* above one second (a response time is not negative; the values stay below
\* 2^31 nanoseconds, the range of the checker's integers)
DurationInputs ==
    { d \in { a * Second + m * u + o :
                a \in 0..1,
                m \in 0..MaxMul,
                u \in {Microsecond, 10 * Microsecond, Millisecond,
                       10 * Millisecond},
                o \in (0 - MaxOff)..MaxOff } : d >= 0 }
    \cup { e.time : e \in AuditEvents }

FmtEventsOf(k) ==
    IF k = "audit"
    THEN { [identity |-> "alice", status |-> 200, path |-> "/v1/key/create",
            clock |-> <<10, 2, 3>>, time |-> d] : d \in DurationInputs }
    ELSE { [message |-> m] : m \in Messages }

\* a Running session whose consumer has received its first event, any event
\* the server can send, and has entered table.AddRow
FmtInit ==
    /\ kind \in {"audit", "error"}
    /\ interactive = TRUE
    /\ pc = "inaddrow" /\ lpc = "poll" /\ spc = "none"
    /\ uiActive = TRUE /\ uiInits = 1 /\ uiCloses = 0 /\ termLog = <<>>
    /\ rows = <<>> /\ painted = 0 /\ lsnap = 0
    /\ cur \in { <<e>> : e \in FmtEventsOf(kind) }
    /\ received = cur
    /\ wire = <<>> /\ sent = 1 /\ serverDone = FALSE
    /\ streamClosed = FALSE
    /\ closeCalls = [c \in Callers |-> 0]
    /\ streamErr = NoErr
    /\ events = <<>> /\ nEvents = 0 /\ nSignals = 0
    /\ notify = FALSE
    /\ stdout = <<>>
    /\ fatal = FALSE
    /\ exitCode = Running
    /\ cancelSeen = FALSE /\ cancelMid = FALSE
    /\ solicited = FALSE /\ endSeen = FALSE /\ sigSeen = FALSE
    /\ connFailed = FALSE

\* the row is added and drawn
FmtNext == AddRowEnd \/ DrawBegin \/ DrawEnd

FmtSpec == FmtInit /\ [][FmtNext]_vars

\* the row has been added in a formatter run
FmtDone == Len(rows) = 1 /\ Len(received) = 1 /\ cur = received

\* the positions of the spaces of a message
SpacesOf(m) == { i \in 1..Len(m) : m[i] = " " }

\* the smallest element of a non-empty set of numbers
MinOf(S) == CHOOSE x \in S : \A y \in S : x <= y

\* out is src with every newline turned into a space
IsFlattened(src, out) ==
    /\ Len(out) = Len(src)
    /\ \A k \in 1..Len(src) : out[k] = (IF src[k] = "\n" THEN " " ELSE src[k])

\* C13: the error formatter always gives a 2-cell row. With two or more
\* spaces in the message the time cell is the text between the first two
\* spaces and the message cell is the text after the second, newlines turned
\* into spaces; otherwise the time cell is the current time and the message
\* cell is the whole message, newlines turned into spaces.
C13_ErrorRow ==
    (kind = "error" /\ FmtDone) =>
        LET m == cur[1].message
            sp == SpacesOf(m)
            row == rows[1]
        IN /\ Len(row) = 2
           /\ IF Cardinality(sp) >= 2
              THEN LET i1 == MinOf(sp)
                       i2 == MinOf(sp \ {i1})
                   IN /\ row[1].text = SubSeq(m, i1 + 1, i2 - 1)
                      /\ IsFlattened(SubSeq(m, i2 + 1, Len(m)), row[2].text)
              ELSE /\ \E now \in Clocks : row[1].text = ClockString(now)
                   /\ IsFlattened(m, row[2].text)

\* C13 witness: a message without date and time that holds a newline has
\* been formatted
C13_Witness ==
    /\ kind = "error" /\ FmtDone
    /\ Cardinality(SpacesOf(cur[1].message)) = 1
    /\ \E k \in 1..Len(cur[1].message) : cur[1].message[k] = "\n"
\* the resolution the duration policy gives a response time (spec.md 4.2)
UnitOf(d) ==
    IF d >= Second THEN 10 * Millisecond
    ELSE IF d >= Millisecond THEN 10 * Microsecond
    ELSE Microsecond

\* C14: the response cell shows the response time rounded down to a multiple
\* of 10ms from 1s on, of 10us from 1ms on and of 1us below; the shown value
\* has the same resolution and formatting it again gives the same text.
C14_DurationTruncation ==
    (kind = "audit" /\ FmtDone) =>
        LET d == cur[1].time
            u == UnitOf(d)
            t == u * (d \div u)
            text == rows[1][5].text
        IN /\ t <= d /\ d < t + u
           /\ text = DurationString(t)
           /\ UnitOf(t) = u
           /\ respTimeOf(t) = text

\* C14 witness: a response time of one second or more that is not a
\* multiple of 10ms has been formatted
C14_Witness ==
    /\ kind = "audit" /\ FmtDone
    /\ cur[1].time >= Second
    /\ cur[1].time % (10 * Millisecond) # 0
\* C15: after a connection error the failure has been reported as fatal and
\* the process has ended at once: the terminal is never initialised, no
\* listener is started and Table.Draw is never entered.
C15_ConnectError ==
    connFailed =>
        /\ fatal /\ exitCode = 1
        /\ pc = "connect"
        /\ uiInits = 0 /\ ~uiActive
        /\ lpc = "none" /\ spc = "none"
        /\ painted = 0 /\ rows = <<>>

\* C15 witness: the connection has failed
C15_Witness ==
    connFailed /\ fatal /\ ~Alive
\* a step of the consumer's handling of one data event
DataStep ==
    \/ pc = "next" /\ pc' = "addrow"
    \/ pc \in {"addrow", "inaddrow"} /\ pc' # pc
    \/ pc \in {"draw", "indraw"} /\ pc' # pc /\ cur # <<>>

\* a step of the listener's handling of one resize event
ResizeStep ==
    \/ lpc = "poll" /\ lpc' = "indraw"
    \/ lpc = "indraw" /\ lpc' = "poll"

\* C16: a data event takes the consumer through exactly one Table.AddRow,
\* which adds exactly one row, and then exactly one Table.Draw before the next
\* Stream.Next(); a resize event received by the listener causes a Table.Draw
\* and adds no row; neither takes the session out of Running.
C16_DataAndResize ==
    [][ /\ pc = "addrow" => pc' \in {"addrow", "inaddrow"}
        /\ pc = "inaddrow" => pc' \in {"inaddrow", "draw"}
        /\ pc = "draw" => pc' \in {"draw", "indraw"}
        /\ pc = "indraw" => pc' \in {"indraw", "next"}
        /\ Len(rows') = Len(rows) + (IF pc = "inaddrow" /\ pc' = "draw" THEN 1 ELSE 0)
        /\ (lpc = "poll" /\ Len(events') < Len(events) /\ Head(events) = "<Resize>")
              => (lpc' = "indraw" /\ rows' = rows)
        /\ (lpc = "poll" /\ lpc' = "indraw")
              => (Head(events) = "<Resize>" /\ events' = Tail(events))
        /\ ((DataStep \/ ResizeStep) /\ SessionRunning) => SessionRunning'
      ]_vars

\* C16 witness: while Running, one data event has been handled up to the next
\* Stream.Next() and the listener is drawing for a resize event
C16_Witness ==
    /\ SessionRunning
    /\ pc = "next" /\ Len(received) = 1 /\ Len(rows) = 1 /\ painted = 1
    /\ lpc = "indraw"
\* C17: every buffered row has as many cells as the table has headers, 5 in
\* an audit session and 2 in an error session.
C17_RowLength ==
    \A i \in 1..Len(rows) :
        Len(rows[i]) = HeadersOf(kind) /\ HeadersOf(kind) = (IF kind = "audit" THEN 5 ELSE 2)

\* C17 witness: an error session has buffered a row built by the fallback
C17_Witness ==
    /\ kind = "error" /\ Len(rows) = 2
    /\ \E i \in 1..2 : Cardinality(SpacesOf(received[i].message)) < 2
\* C18: the listener calls Stream.Close() at most once, and once it has
\* handled a Cancel it has stopped: it takes no later event from the queue,
\* enters no Table.Draw and makes no further Stream.Close() call.
C18_ListenerStopsAfterCancel ==
    [][ /\ closeCalls'["listener"] <= 1
        /\ closeCalls["listener"] >= 1 =>
              /\ lpc = "done" /\ lpc' = "done"
              /\ closeCalls'["listener"] = closeCalls["listener"]
              /\ Len(events') >= Len(events)
      ]_vars

\* C18 witness: a Cancel has been handled and a later resize or Cancel event
\* is waiting in the queue
C18_Witness ==
    /\ closeCalls["listener"] = 1 /\ lpc = "done"
    /\ events # <<>> /\ Head(events) \in CancelKeys \cup {"<Resize>"}
\* C19: a non-interactive session never ends with exit code 0; once the
\* stream end is seen the only way on is the fatal report, with exit code 1,
\* whatever ended the stream; the closeOn goroutine closes the stream at most
\* once and is then gone.
C19_PlainAlwaysFatal ==
    ~interactive =>
        /\ exitCode # 0
        /\ endSeen => pc = "pfatal"
        /\ (endSeen /\ Exited) => (fatal /\ exitCode = 1)
        /\ closeCalls["signal"] <= 1
        /\ closeCalls["signal"] = 1 => spc = "done"

\* C19 witness: the signal listener closed the stream on an interrupt,
\* Stream.Err() is nil and the session has ended through the fatal report
C19_Witness ==
    /\ ~interactive /\ closeCalls["signal"] = 1
    /\ endSeen /\ streamErr = NoErr
    /\ fatal /\ exitCode = 1
====
